---- MODULE Spec2Model ----
(***************************************************************************)
(* webenum: the subdomain scan of src/webenum/main.py (scan_subdomains)    *)
(* together with the outcomes of one lookup of src/webenum/dns.py (query). *)
(*                                                                         *)
(* The specifications:                                                     *)
(*   GenSpec     the candidate loop of scan_subdomains on its own (the     *)
(*               odometer over `indices`), for the claims about the       *)
(*               sequence of candidates;                                   *)
(*   Spec        the whole scan: wildcard probe, candidate loop, batches   *)
(*               handed to a ThreadPoolExecutor, worker threads,           *)
(*               collection of the results, with any resolver;             *)
(*   DetSpec     the whole scan with a resolver that answers from a fixed  *)
(*               set of names;                                             *)
(*   PairSpec    the candidate loops of scan_uris and scan_subdomains      *)
(*               side by side;                                             *)
(*   HeaderSpec  Header.serialize followed by Header.from_buf;             *)
(*   NameSpec    the question encoder of query followed by                 *)
(*               read_domain_name;                                         *)
(*   QuerySpec   one call of query on a reply given byte by byte.          *)
(*                                                                         *)
(* A name is modelled as its sequence of labels: '.'.join(labels).         *)
(***************************************************************************)
EXTENDS Integers, Sequences, FiniteSets, TLC

\* ---------------------------------------------------------------- bounds
GenMaxWords == 4
GenMaxDepth == 4
MaxCandidates == 5
MaxThreads == 3
MaxAnswers == 2

\* ---------------------------------------------------------------- inputs
\* Distinct wordlist entries; a wordlist of length n is the first n of them.
Words == <<"a", "b", "c", "d", "e", "f", "g", "h">>

WordList(n) == SubSeq(Words, 1, n)

\* The scan target (`path`), itself a dotted name, kept as one trailing element.
Target == "example.test"

VARIABLES
    wordlist,        \* scan_subdomains parameter
    depth,           \* scan_subdomains parameter
    num_threads,     \* scan_subdomains parameter
    quiet,           \* scan_subdomains parameter
    pc,              \* position of the scan's own (single) thread
    error,           \* the exception that ended the scan, "none" if none
    indices,         \* main.py:71, kept 1-based: indices[k+1] is Python's indices[k]
    jobs,            \* main.py:28, the names of the pending batch
    found,           \* main.py:72
    wildcard_addrs,  \* main.py:35/37
    wildcard_writes, \* history: how many times wildcard_addrs was assigned
    probe_reply,     \* history: what the wildcard probe's lookup ended in
    futures,         \* the work items handed to executors and not yet finished and dropped
    scheduled,       \* main.py:42, indices into futures of the current batch
    collect_i,       \* position of the `for job in scheduled` loop (main.py:47)
    results,         \* main.py:46
    final,           \* TRUE in the exec_jobs call of main.py:101, FALSE in that of main.py:97
    batch_no,        \* number of executors created so far
    emitted,         \* history: every req_path formed (main.py:91), in order
    dispatched,      \* history: the batches submitted, each a sequence of names
    answers,         \* history: lookups the resolver answered other than NXDOMAIN
    zone,            \* the resolver: any resolver, or one with a fixed set of names
    uri_pc,          \* scan_uris: position of its candidate loop
    uri_indices,     \* scan_uris: main.py:139
    uri_jobs,        \* scan_uris: main.py:119
    uri_emitted,     \* history: every req_path scan_uris formed (main.py:159)
    uri_batches,     \* history: the batches scan_uris handed to exec_jobs
    trailing_slash,  \* scan_uris: its argument (main.py:106)
    dns_pc,          \* position inside one call of dns.query or of the codec
    dns_in,          \* what the call is given: its argument, or the reply received
    dns_out          \* what the call has produced so far

vars == <<wordlist, depth, num_threads, quiet, pc, error, indices, jobs, found,
          wildcard_addrs, wildcard_writes, probe_reply, futures, scheduled,
          collect_i, results, final, batch_no, emitted, dispatched, answers,
          zone, uri_pc, uri_indices, uri_jobs, uri_emitted, uri_batches,
          trailing_slash, dns_pc, dns_in, dns_out>>

urivars == <<uri_pc, uri_indices, uri_jobs, uri_emitted, uri_batches, trailing_slash>>
dnsvars == <<dns_pc, dns_in, dns_out>>
\* What one run of scan_subdomains leaves alone.
outside == <<zone, urivars, dnsvars>>

\* ------------------------------------------------------- candidate loop
\* segments[::-1] (main.py:91)
RECURSIVE Reversed(_)
Reversed(s) == IF s = <<>> THEN <<>> ELSE Reversed(Tail(s)) \o <<Head(s)>>

ReqPathPlain(segments) == segments

\* req_path = '.'.join(segments[::-1]) (main.py:91)
ReqPath(segments) == Reversed(segments)

\* main.py:82-84: indices[seg_i-1] += 1; for j in range(seg_i, depth): indices[j] = 0
Carry(idx, seg_i, d) ==
    [k \in 1..Len(idx) |->
        IF k = seg_i THEN idx[k] + 1             \* Python index seg_i-1
        ELSE IF k >= seg_i + 1 /\ k <= d THEN 0  \* Python indices seg_i..depth-1
        ELSE idx[k]]

\* The `for seg_i in range(depth-1, -1, -1)` loop of main.py:76-88 from seg_i
\* downwards. st.exc is the exception raised, st.brk is TRUE after the break
\* of main.py:80.
RECURSIVE SegLoop(_, _, _, _)
SegLoop(st, seg_i, wl, d) ==
    IF seg_i < 0 THEN st
    ELSE IF seg_i >= Len(st.indices)
    THEN [st EXCEPT !.exc = "IndexError"]                      \* indices[seg_i]
    ELSE IF st.indices[seg_i + 1] = Len(wl) /\ seg_i = 0
    THEN [st EXCEPT !.segments = <<>>, !.brk = TRUE]           \* main.py:78-80
    ELSE
      LET idx1 == IF st.indices[seg_i + 1] = Len(wl)
                  THEN Carry(st.indices, seg_i, d)
                  ELSE st.indices
      IN IF idx1[seg_i + 1] >= Len(wl)
         THEN [st EXCEPT !.indices = idx1, !.exc = "IndexError"]   \* wordlist[...]
         ELSE
           LET seg1 == Append(st.segments, wl[idx1[seg_i + 1] + 1])
               idx2 == IF st.complete_seg THEN idx1
                       ELSE [idx1 EXCEPT ![seg_i + 1] = idx1[seg_i + 1] + 1]
           IN SegLoop([st EXCEPT !.indices = idx2, !.segments = seg1,
                                 !.complete_seg = TRUE],
                      seg_i - 1, wl, d)

\* One pass of the `while True` body up to main.py:90.
NextCandidate(idx, wl, d) ==
    SegLoop([indices |-> idx, segments |-> <<>>, complete_seg |-> FALSE,
             exc |-> "none", brk |-> FALSE], d - 1, wl, d)

\* main.py:71: indices = [0] * len(wordlist)
InitIndices(wl) == [k \in 1..Len(wl) |-> 0]

\* main.py:96: if len(jobs) == num_threads
BatchFullOver(js, n) == Len(js) = n + 1

BatchFull(js, n) == Len(js) = n

\* full_path = req_path + '.' + path (main.py:93)
FullPathBare(req_path) == req_path

FullPath(req_path) == req_path \o <<Target>>

\* ------------------------------------------------------------ one lookup
\* What dns.query(name, ns, 'A') can end in (dns.py:78-179):
\*   NotFoundError  rcode 3                                  (dns.py:122-123)
\*   RuntimeError   no reply within timeout_sec              (dns.py:115-119)
\*   DecodeError    the reply does not parse: struct.error, IndexError or
\*                  UnicodeDecodeError out of dns.py:121-177
\*   ok             the list of (owner name, address) pairs  (dns.py:124-179)
Alias == <<"alias", Target>>

AnswerLists(name) ==
    { <<>>,
      << <<name, "1.2.3.4">> >>,
      << <<name, "1.2.3.4">>, <<name, "5.6.7.8">> >>,
      << <<name, "1.2.3.4">>, <<Alias, "5.6.7.8">> >> }

QueryOutcomes(name) ==
    { [kind |-> k, recs |-> <<>>] : k \in {"NotFoundError", "RuntimeError", "DecodeError"} }
    \cup { [kind |-> "ok", recs |-> r] : r \in AnswerLists(name) }

\* A resolver with a fixed zone: a name whose first label is in the zone has one
\* A record of its own, every other name (the probe's included) is NXDOMAIN.
ZoneAnswer(names, name) ==
    IF name[1] \in names
    THEN [kind |-> "ok", recs |-> << <<name, "10.0.0.1">> >>]
    ELSE [kind |-> "NotFoundError", recs |-> <<>>]

\* Any resolver at all.
AnyResolver == [fixed |-> FALSE, names |-> {}]

\* What dns.query(name, '1.1.1.1', 'A') can end in under the resolver z.
Resolve(z, name) ==
    IF z.fixed THEN {ZoneAnswer(z.names, name)} ELSE QueryOutcomes(name)

\* job_worker (main.py:21-26): what the future of one job ends up holding.
JobWorker(outcome) ==
    IF outcome.kind = "ok" THEN [kind |-> "records", recs |-> outcome.recs, exc |-> "none"]
    ELSE IF outcome.kind = "NotFoundError" THEN [kind |-> "None", recs |-> <<>>, exc |-> "none"]
    ELSE [kind |-> "raise", recs |-> <<>>, exc |-> outcome.kind]

\* A concurrent.futures.Future before its work item has finished: no result yet.
NoResult == [kind |-> "None", recs |-> <<>>, exc |-> "none"]

\* [addr for _, addr in result] as a set (main.py:32,35,55)
AddrSet(recs) == { recs[k][2] : k \in 1..Len(recs) }

WildcardOfStale(outcome) ==
    IF outcome.kind = "NotFoundError" THEN {"1.2.3.4"} ELSE AddrSet(outcome.recs)

\* main.py:30-37: the value the wildcard probe leaves in wildcard_addrs
WildcardOf(outcome) ==
    IF outcome.kind = "NotFoundError" THEN {} ELSE AddrSet(outcome.recs)

\* main.py:57-66 (not quiet): grouped_results[dn] is the address string of the
\* first record of dn; a second record of the same dn calls str.extend, which
\* does not exist and raises AttributeError.
GroupingRaises(recs) ==
    \E a, b \in 1..Len(recs) : a < b /\ recs[a][1] = recs[b][1]

\* job.result() (main.py:48) returns once the work item has finished.
FutureDoneEarly(f) == f.status # "queued"

FutureDone(f) == f.status = "done"

\* Leaving the `with ThreadPoolExecutor(...)` block (main.py:43) is
\* executor.shutdown(wait=True): every work item of this executor has finished.
Drained(futs, b) ==
    \A k \in 1..Len(futs) : futs[k].batch = b => FutureDone(futs[k])

Running(futs) == { k \in 1..Len(futs) : futs[k].status = "running" }

\* The executor is dropped on leaving exec_jobs; what stays behind is only work
\* that has not finished.
Unfinished(futs) == SelectSeq(futs, LAMBDA f : f.status # "done")

\* Lookups started and not yet completed.
InFlight == Cardinality(Running(futures)) + (IF pc = "probe" THEN 1 ELSE 0)

\* main.py:218-225 (args.json): hits grouped by owner name, addresses appended
\* in the order of `results`.
RECURSIVE GroupEntry(_, _)
GroupEntry(grouped, entry) ==
    IF entry = <<>> THEN grouped
    ELSE LET dn == Head(entry)[1]
             addr == Head(entry)[2]
             g1 == IF dn \in DOMAIN grouped
                   THEN [grouped EXCEPT ![dn] = Append(grouped[dn], addr)]
                   ELSE [n \in DOMAIN grouped \cup {dn} |->
                            IF n = dn THEN <<addr>> ELSE grouped[n]]
         IN GroupEntry(g1, Tail(entry))

RECURSIVE GroupHits(_, _)
GroupHits(grouped, res) ==
    IF res = <<>> THEN grouped
    ELSE GroupHits(GroupEntry(grouped, Head(res)), Tail(res))

\* 'hits' of results_json (main.py:229-232): grouped only when args.json.
Hits == IF quiet THEN GroupHits(<<>>, found) ELSE <<>>

\* ================================================================ Spec
\* State at entry of scan_subdomains, after the asserts of main.py:17-19 passed
\* (proxy unset, depth > 0, num_threads > 0, wordlist non-empty).
Entry(wl, d, n, q) ==
    /\ wordlist = wl
    /\ depth = d
    /\ num_threads = n
    /\ quiet = q
    /\ error = "none"
    /\ indices = InitIndices(wl)
    /\ jobs = <<>>
    /\ found = <<>>
    /\ wildcard_addrs = {}
    /\ wildcard_writes = 0
    /\ probe_reply = "none"
    /\ futures = <<>>
    /\ scheduled = <<>>
    /\ collect_i = 1
    /\ results = <<>>
    /\ final = FALSE
    /\ batch_no = 0
    /\ emitted = <<>>
    /\ dispatched = <<>>
    /\ answers = 0

\* scan_uris is not running.
UriIdle ==
    /\ uri_pc = "idle"
    /\ uri_indices = <<>>
    /\ uri_jobs = <<>>
    /\ uri_emitted = <<>>
    /\ uri_batches = <<>>
    /\ trailing_slash = FALSE

\* No call of the codec outside the scan is being followed.
DnsIdle ==
    /\ dns_pc = "idle"
    /\ dns_in = <<>>
    /\ dns_out = <<>>

\* len(wordlist) ** depth
RECURSIVE Power(_, _)
Power(n, d) == IF d = 0 THEN 1 ELSE n * Power(n, d - 1)

\* The wordlists and depths that ask for at most MaxCandidates candidates.
Init ==
    /\ pc = "start"
    /\ \E n \in 1..MaxCandidates, d \in 1..MaxCandidates,
          t \in 1..MaxThreads, q \in BOOLEAN :
          /\ Power(n, d) <= MaxCandidates
          /\ Entry(WordList(n), d, t, q)
    /\ zone = AnyResolver
    /\ UriIdle
    /\ DnsIdle

inputs == <<wordlist, depth, num_threads, quiet>>
execvars == <<futures, scheduled, collect_i, results, batch_no, dispatched, answers>>
probevars == <<wildcard_addrs, wildcard_writes, probe_reply>>
genvars == <<indices, jobs, emitted, final>>

\* main.py:31: dns.query('*.' + path, ...) has sent its datagram (dns.py:113)
ProbeSend ==
    /\ pc = "start"
    /\ pc' = "probe"
    /\ UNCHANGED <<inputs, outside, error, found, probevars, genvars, execvars>>

\* main.py:31-37: the probe's lookup returns a list or raises NotFoundError
ProbeAnswered ==
    /\ pc = "probe"
    /\ \E o \in Resolve(zone, <<"*", Target>>) :
          /\ o.kind \in {"ok", "NotFoundError"}
          /\ wildcard_addrs' = WildcardOf(o)
          /\ probe_reply' = o.kind
    /\ wildcard_writes' = wildcard_writes + 1
    /\ pc' = "gen"
    /\ UNCHANGED <<inputs, outside, error, found, genvars, execvars>>

\* main.py:31: the probe's lookup raises anything else; nothing catches it
ProbeRaises ==
    /\ pc = "probe"
    /\ \E o \in Resolve(zone, <<"*", Target>>) :
          /\ o.kind \notin {"ok", "NotFoundError"}
          /\ error' = o.kind
          /\ probe_reply' = o.kind
    /\ pc' = "aborted"
    /\ UNCHANGED <<inputs, outside, found, wildcard_addrs, wildcard_writes, genvars, execvars>>

\* main.py:73-98: one pass of the loop that forms a candidate and appends its job
GenCandidate ==
    /\ pc = "gen"
    /\ LET r == NextCandidate(indices, wordlist, depth)
       IN /\ r.exc = "none" /\ ~r.brk
          /\ indices' = r.indices
          /\ emitted' = Append(emitted, ReqPath(r.segments))
          /\ jobs' = Append(jobs, FullPath(ReqPath(r.segments)))
    /\ final' = FALSE
    /\ pc' = IF BatchFull(jobs', num_threads) THEN "exec" ELSE "gen"
    /\ UNCHANGED <<inputs, outside, error, found, probevars, execvars>>

\* main.py:78-80,89-90,101: position 0 overflowed; the loop ends and the last
\* exec_jobs call is made
GenExhausted ==
    /\ pc = "gen"
    /\ LET r == NextCandidate(indices, wordlist, depth)
       IN /\ r.exc = "none" /\ r.brk
          /\ indices' = r.indices
    /\ final' = TRUE
    /\ pc' = "exec"
    /\ UNCHANGED <<inputs, outside, error, found, probevars, jobs, emitted, execvars>>

\* main.py:77: indices[seg_i] outside the list
GenIndexError ==
    /\ pc = "gen"
    /\ LET r == NextCandidate(indices, wordlist, depth)
       IN /\ r.exc # "none"
          /\ indices' = r.indices
          /\ error' = r.exc
    /\ pc' = "aborted"
    /\ UNCHANGED <<inputs, outside, found, probevars, jobs, emitted, final, execvars>>

\* main.py:40-41: exec_jobs with nothing pending returns [] (only the last call)
ExecEmpty ==
    /\ pc = "exec"
    /\ Len(jobs) = 0
    /\ pc' = IF final THEN "done" ELSE "gen"
    /\ UNCHANGED <<inputs, outside, error, found, probevars, genvars, execvars>>

\* main.py:42-43: a new executor with max_workers = num_threads
ExecOpen ==
    /\ pc = "exec"
    /\ Len(jobs) > 0
    /\ batch_no' = batch_no + 1
    /\ scheduled' = <<>>
    /\ dispatched' = Append(dispatched, <<>>)
    /\ pc' = "submit"
    /\ UNCHANGED <<inputs, outside, error, found, probevars, genvars, futures, collect_i,
                   results, answers>>

\* main.py:44-46: executor.submit of the next job; after the last one, results = []
Submit ==
    /\ pc = "submit"
    /\ LET k == Len(scheduled) + 1
       IN /\ futures' = Append(futures, [name |-> jobs[k], batch |-> batch_no,
                                         status |-> "queued", result |-> NoResult])
          /\ scheduled' = Append(scheduled, Len(futures) + 1)
          /\ dispatched' = [dispatched EXCEPT ![batch_no] = Append(@, jobs[k])]
          /\ IF k = Len(jobs)
             THEN pc' = "collect" /\ collect_i' = 1 /\ results' = <<>>
             ELSE UNCHANGED <<pc, collect_i, results>>
    /\ UNCHANGED <<inputs, outside, error, found, probevars, genvars, batch_no, answers>>

\* A worker thread of the executor takes the oldest queued work item; an
\* executor runs at most max_workers threads.
WorkerStart ==
    \E k \in 1..Len(futures) :
        /\ futures[k].status = "queued"
        /\ \A j \in 1..(k - 1) : futures[j].batch = futures[k].batch
                                  => futures[j].status # "queued"
        /\ Cardinality({j \in Running(futures) : futures[j].batch = futures[k].batch})
              < num_threads
        /\ futures' = [futures EXCEPT ![k].status = "running"]
        /\ UNCHANGED <<inputs, outside, pc, error, found, probevars, genvars, scheduled,
                       collect_i, results, batch_no, dispatched, answers>>

\* job_worker returns or raises (main.py:21-26). Of an unconstrained resolver, at
\* most MaxAnswers lookups of a scan are answered with anything but NXDOMAIN.
WorkerFinish ==
    \E k \in 1..Len(futures) :
        /\ futures[k].status = "running"
        /\ \E o \in Resolve(zone, futures[k].name) :
              /\ (~zone.fixed /\ o.kind # "NotFoundError") => answers < MaxAnswers
              /\ answers' = IF o.kind = "NotFoundError" THEN answers ELSE answers + 1
              /\ futures' = [futures EXCEPT ![k].status = "done",
                                            ![k].result = JobWorker(o)]
        /\ UNCHANGED <<inputs, outside, pc, error, found, probevars, genvars, scheduled,
                       collect_i, results, batch_no, dispatched>>

\* The future the `for job in scheduled` loop is at (main.py:47-48)
Current == futures[scheduled[collect_i]]

Collecting ==
    /\ pc = "collect"
    /\ collect_i <= Len(scheduled)
    /\ FutureDone(Current)

\* main.py:48: job.result() re-raises what the worker raised
CollectRaise ==
    /\ Collecting
    /\ Current.result.kind = "raise"
    /\ error' = Current.result.exc
    /\ pc' = "unwind"
    /\ UNCHANGED <<inputs, outside, found, probevars, genvars, execvars>>

\* main.py:49-56: no such name, no records, or exactly the wildcard addresses
CollectSkip ==
    /\ Collecting
    /\ \/ Current.result.kind = "None"
       \/ /\ Current.result.kind = "records"
          /\ \/ Len(Current.result.recs) = 0
             \/ AddrSet(Current.result.recs) = wildcard_addrs
    /\ collect_i' = collect_i + 1
    /\ UNCHANGED <<inputs, outside, pc, error, found, probevars, genvars, futures, scheduled,
                   results, batch_no, dispatched, answers>>

Hit ==
    /\ Current.result.kind = "records"
    /\ Len(Current.result.recs) # 0
    /\ AddrSet(Current.result.recs) # wildcard_addrs

CollectHitFront ==
    /\ Collecting
    /\ Hit
    /\ quiet \/ ~GroupingRaises(Current.result.recs)
    /\ results' = <<Current.result.recs>> \o results
    /\ collect_i' = collect_i + 1
    /\ UNCHANGED <<inputs, outside, pc, error, found, probevars, genvars, futures,
                   scheduled, batch_no, dispatched, answers>>

\* main.py:57-67: a hit is printed (unless quiet) and appended to results
CollectHit ==
    /\ Collecting
    /\ Hit
    /\ quiet \/ ~GroupingRaises(Current.result.recs)
    /\ results' = Append(results, Current.result.recs)
    /\ collect_i' = collect_i + 1
    /\ UNCHANGED <<inputs, outside, pc, error, found, probevars, genvars, futures, scheduled,
                   batch_no, dispatched, answers>>

\* main.py:64: printing a hit with two records of one owner name raises
CollectPrintRaises ==
    /\ Collecting
    /\ Hit
    /\ ~quiet /\ GroupingRaises(Current.result.recs)
    /\ error' = "AttributeError"
    /\ pc' = "unwind"
    /\ UNCHANGED <<inputs, outside, found, probevars, genvars, execvars>>

\* main.py:68,97-98,101-103: the with block is left, exec_jobs returns results,
\* found.extend(...), then jobs.clear() or return found
ExecReturn ==
    /\ pc = "collect"
    /\ collect_i > Len(scheduled)
    /\ Drained(futures, batch_no)
    /\ found' = found \o results
    /\ futures' = Unfinished(futures)
    /\ scheduled' = <<>>
    /\ collect_i' = 1
    /\ results' = <<>>
    /\ IF final THEN pc' = "done" /\ jobs' = jobs
                ELSE pc' = "gen" /\ jobs' = <<>>
    /\ UNCHANGED <<inputs, outside, error, probevars, indices, emitted, final, batch_no,
                   dispatched, answers>>

\* An exception leaves the with block (shutdown(wait=True)) and then
\* scan_subdomains
Unwind ==
    /\ pc = "unwind"
    /\ Drained(futures, batch_no)
    /\ pc' = "aborted"
    /\ UNCHANGED <<inputs, outside, error, found, probevars, genvars, execvars>>

Next ==
    \/ ProbeSend
    \/ ProbeAnswered
    \/ ProbeRaises
    \/ GenCandidate
    \/ GenExhausted
    \/ GenIndexError
    \/ ExecEmpty
    \/ ExecOpen
    \/ Submit
    \/ WorkerStart
    \/ WorkerFinish
    \/ CollectRaise
    \/ CollectSkip
    \/ CollectHit
    \/ CollectPrintRaises
    \/ ExecReturn
    \/ Unwind

Spec == Init /\ [][Next]_vars

\* ============================================================= DetSpec
\* The scan against a resolver with a fixed zone. Such a resolver never lets a
\* lookup time out, never sends a reply that fails to parse and never answers
\* with two records, so ProbeRaises, CollectRaise, CollectPrintRaises and
\* Unwind are never enabled and are left out of DetNext.
DetInit ==
    /\ pc = "start"
    /\ \E wl \in {<<"www", "mail">>} \cup {WordList(n) : n \in 1..MaxCandidates},
          d \in 1..MaxCandidates, t \in 1..MaxThreads, q \in BOOLEAN :
          /\ Power(Len(wl), d) <= MaxCandidates
          /\ Entry(wl, d, t, q)
          /\ \E names \in SUBSET {wl[k] : k \in 1..Len(wl)} :
                zone = [fixed |-> TRUE, names |-> names]
    /\ UriIdle
    /\ DnsIdle

DetNext ==
    \/ ProbeSend
    \/ ProbeAnswered
    \/ GenCandidate
    \/ GenExhausted
    \/ GenIndexError
    \/ ExecEmpty
    \/ ExecOpen
    \/ Submit
    \/ WorkerStart
    \/ WorkerFinish
    \/ CollectSkip
    \/ CollectHit
    \/ ExecReturn

DetSpec == DetInit /\ [][DetNext]_vars

\* ============================================================= GenSpec
\* The candidate loop alone (main.py:70-93): the loop body up to the candidate
\* name, with the odometer as its only state.
GenInit ==
    /\ pc = "loop"
    /\ \E n \in 1..GenMaxWords, d \in 1..GenMaxDepth :
          Entry(WordList(n), d, 1, TRUE)
    /\ zone = AnyResolver
    /\ UriIdle
    /\ DnsIdle

loopfixed == <<inputs, outside, found, probevars, jobs, final, execvars>>

LoopCandidate ==
    /\ pc = "loop"
    /\ LET r == NextCandidate(indices, wordlist, depth)
       IN /\ r.exc = "none" /\ ~r.brk
          /\ indices' = r.indices
          /\ emitted' = Append(emitted, ReqPath(r.segments))
    /\ UNCHANGED <<pc, error, loopfixed>>

LoopExhausted ==
    /\ pc = "loop"
    /\ LET r == NextCandidate(indices, wordlist, depth)
       IN /\ r.exc = "none" /\ r.brk
          /\ indices' = r.indices
    /\ pc' = "done"
    /\ UNCHANGED <<error, emitted, loopfixed>>

LoopIndexError ==
    /\ pc = "loop"
    /\ LET r == NextCandidate(indices, wordlist, depth)
       IN /\ r.exc # "none"
          /\ indices' = r.indices
          /\ error' = r.exc
    /\ pc' = "aborted"
    /\ UNCHANGED <<emitted, loopfixed>>

GenNext == LoopCandidate \/ LoopExhausted \/ LoopIndexError

GenSpec == GenInit /\ [][GenNext]_vars

\* ============================================================ PairSpec
\* The candidate loop of scan_uris (main.py:138-174) beside the one of
\* scan_subdomains (main.py:70-101), on the same wordlist, depth and
\* num_threads. Each exec_jobs call is one step that returns: what the
\* requests and lookups answer is left out.

\* main.py:150-152: indices[seg_i-1] += 1; for j in range(seg_i, depth): indices[j] = 0
UriCarry(idx, seg_i, d) ==
    [k \in 1..Len(idx) |->
        IF k = seg_i THEN idx[k] + 1
        ELSE IF k >= seg_i + 1 /\ k <= d THEN 0
        ELSE idx[k]]

\* The `for seg_i in range(depth-1, -1, -1)` loop of main.py:144-156
RECURSIVE UriSegLoop(_, _, _, _)
UriSegLoop(st, seg_i, wl, d) ==
    IF seg_i < 0 THEN st
    ELSE IF seg_i >= Len(st.indices)
    THEN [st EXCEPT !.exc = "IndexError"]
    ELSE IF st.indices[seg_i + 1] = Len(wl) /\ seg_i = 0
    THEN [st EXCEPT !.segments = <<>>, !.brk = TRUE]           \* main.py:146-148
    ELSE
      LET idx1 == IF st.indices[seg_i + 1] = Len(wl)
                  THEN UriCarry(st.indices, seg_i, d)
                  ELSE st.indices
      IN IF idx1[seg_i + 1] >= Len(wl)
         THEN [st EXCEPT !.indices = idx1, !.exc = "IndexError"]
         ELSE
           LET seg1 == Append(st.segments, wl[idx1[seg_i + 1] + 1])
               idx2 == IF st.complete_seg THEN idx1
                       ELSE [idx1 EXCEPT ![seg_i + 1] = idx1[seg_i + 1] + 1]
           IN UriSegLoop([st EXCEPT !.indices = idx2, !.segments = seg1,
                                    !.complete_seg = TRUE],
                         seg_i - 1, wl, d)

\* One pass of the `while True` body up to main.py:158
UriNextCandidate(idx, wl, d) ==
    UriSegLoop([indices |-> idx, segments |-> <<>>, complete_seg |-> FALSE,
                exc |-> "none", brk |-> FALSE], d - 1, wl, d)

\* main.py:139: indices = [0] * len(wordlist)
UriInitIndices(wl) == [k \in 1..Len(wl) |-> 0]

\* main.py:159-161: '/'.join(segments[::-1]), with '/' added for trailing_slash;
\* a path is kept as its '/'-separated parts, a trailing '/' as a last empty part
UriReqPath(segments, slash) ==
    Reversed(segments) \o (IF slash THEN <<"">> ELSE <<>>)

UriBase == "http://example.test"

\* main.py:163-166
UriFullPath(req_path) == <<UriBase>> \o req_path

UriBatchFullOver(js, n) == Len(js) = n + 1

\* main.py:169: if len(jobs) == num_threads
UriBatchFull(js, n) == Len(js) = n

\* Candidates of one side by side run: enough for a carry through two positions
PairMaxCandidates == 27

PairInit ==
    /\ pc = "loop"
    /\ \E n \in 1..GenMaxWords, d \in 1..GenMaxDepth, t \in 1..MaxThreads :
          /\ Power(n, d) <= PairMaxCandidates
          /\ Entry(WordList(n), d, t, TRUE)
    /\ zone = AnyResolver
    /\ DnsIdle
    /\ uri_pc = "loop"
    /\ uri_indices = UriInitIndices(wordlist)
    /\ uri_jobs = <<>>
    /\ uri_emitted = <<>>
    /\ uri_batches = <<>>
    /\ trailing_slash \in BOOLEAN

subfixed == <<inputs, zone, dnsvars, urivars, found, probevars, final, futures, scheduled,
              collect_i, results, batch_no, answers>>

urifixed == <<inputs, zone, dnsvars, trailing_slash, pc, error, found, probevars,
              genvars, execvars>>

\* scan_subdomains, main.py:73-98: one pass of the loop that forms a candidate
SubCandidate ==
    /\ pc = "loop"
    /\ LET r == NextCandidate(indices, wordlist, depth)
           js == Append(jobs, FullPath(ReqPath(r.segments)))
       IN /\ r.exc = "none" /\ ~r.brk
          /\ indices' = r.indices
          /\ emitted' = Append(emitted, ReqPath(r.segments))
          /\ IF BatchFull(js, num_threads)
             THEN dispatched' = Append(dispatched, js) /\ jobs' = <<>>
             ELSE dispatched' = dispatched /\ jobs' = js
    /\ UNCHANGED <<pc, error, subfixed>>

\* scan_subdomains, main.py:89-90 and 101: the loop ends, the rest is executed
SubExhausted ==
    /\ pc = "loop"
    /\ LET r == NextCandidate(indices, wordlist, depth)
       IN /\ r.exc = "none" /\ r.brk
          /\ indices' = r.indices
    /\ dispatched' = IF Len(jobs) = 0 THEN dispatched ELSE Append(dispatched, jobs)
    /\ pc' = "done"
    /\ UNCHANGED <<error, jobs, emitted, subfixed>>

SubIndexError ==
    /\ pc = "loop"
    /\ LET r == NextCandidate(indices, wordlist, depth)
       IN /\ r.exc # "none"
          /\ indices' = r.indices
          /\ error' = r.exc
    /\ pc' = "aborted"
    /\ UNCHANGED <<jobs, emitted, dispatched, subfixed>>

\* scan_uris, main.py:141-171: one pass of the loop that forms a candidate
UriCandidate ==
    /\ uri_pc = "loop"
    /\ LET r == UriNextCandidate(uri_indices, wordlist, depth)
           req_path == UriReqPath(r.segments, trailing_slash)
           js == Append(uri_jobs, UriFullPath(req_path))
       IN /\ r.exc = "none" /\ ~r.brk
          /\ uri_indices' = r.indices
          /\ uri_emitted' = Append(uri_emitted, req_path)
          /\ IF UriBatchFull(js, num_threads)
             THEN uri_batches' = Append(uri_batches, js) /\ uri_jobs' = <<>>
             ELSE uri_batches' = uri_batches /\ uri_jobs' = js
    /\ UNCHANGED <<uri_pc, urifixed>>

\* scan_uris, main.py:157-158 and 174
UriExhausted ==
    /\ uri_pc = "loop"
    /\ LET r == UriNextCandidate(uri_indices, wordlist, depth)
       IN /\ r.exc = "none" /\ r.brk
          /\ uri_indices' = r.indices
    /\ uri_batches' = IF Len(uri_jobs) = 0 THEN uri_batches ELSE Append(uri_batches, uri_jobs)
    /\ uri_pc' = "done"
    /\ UNCHANGED <<uri_jobs, uri_emitted, urifixed>>

UriIndexError ==
    /\ uri_pc = "loop"
    /\ LET r == UriNextCandidate(uri_indices, wordlist, depth)
       IN /\ r.exc # "none"
          /\ uri_indices' = r.indices
    /\ uri_pc' = "aborted"
    /\ UNCHANGED <<uri_jobs, uri_emitted, uri_batches, urifixed>>

PairNext ==
    \/ SubCandidate
    \/ SubExhausted
    \/ SubIndexError
    \/ UriCandidate
    \/ UriExhausted
    \/ UriIndexError

PairSpec == PairInit /\ [][PairNext]_vars

\* =============================================================== codec
\* Bytes are 0..255; a buffer is a sequence of bytes, and Python's buf[k] is
\* buf[k + 1] here.
RECURSIVE BitAnd(_, _)
BitAnd(a, b) ==
    IF a = 0 \/ b = 0 THEN 0
    ELSE (a % 2) * (b % 2) + 2 * BitAnd(a \div 2, b \div 2)

RECURSIVE BitOr(_, _)
BitOr(a, b) ==
    IF a = 0 THEN b
    ELSE IF b = 0 THEN a
    ELSE (IF a % 2 = 1 \/ b % 2 = 1 THEN 1 ELSE 0) + 2 * BitOr(a \div 2, b \div 2)

RECURSIVE Pow2(_)
Pow2(n) == IF n = 0 THEN 1 ELSE 2 * Pow2(n - 1)

Shl(a, n) == a * Pow2(n)
Shr(a, n) == a \div Pow2(n)

\* struct.pack('!H', v) for 0 <= v <= 65535
PackH(v) == << v \div 256, v % 256 >>

\* struct.unpack('!H', two bytes)[0]
UnpackH(b) == b[1] * 256 + b[2]

\* buf[a:b]
Slice(buf, a, b) ==
    LET lo == IF a > Len(buf) THEN Len(buf) ELSE a
        hi == IF b > Len(buf) THEN Len(buf) ELSE b
    IN IF hi <= lo THEN <<>> ELSE SubSeq(buf, lo + 1, hi)

\* Header.SIZE (dns.py:8)
HeaderSize == 12

FlagsOfSwapped(h) ==
    LET f1 == BitOr(0, BitAnd(h.rcode, 15))
        f2 == BitOr(f1, Shl(BitAnd(h.z, 7), 4))
        f3 == BitOr(f2, Shl(h.ra, 8))
        f4 == BitOr(f3, Shl(h.rd, 7))
        f5 == BitOr(f4, Shl(h.tc, 9))
        f6 == BitOr(f5, Shl(h.aa, 10))
        f7 == BitOr(f6, Shl(BitAnd(h.opcode, 15), 11))
    IN BitOr(f7, Shl(h.qr, 15))

\* Header.serialize, dns.py:60-68. The one-bit fields are Python bools or
\* ints; both shift as 0 or 1.
FlagsOf(h) ==
    LET f1 == BitOr(0, BitAnd(h.rcode, 15))
        f2 == BitOr(f1, Shl(BitAnd(h.z, 7), 4))
        f3 == BitOr(f2, Shl(h.ra, 7))
        f4 == BitOr(f3, Shl(h.rd, 8))
        f5 == BitOr(f4, Shl(h.tc, 9))
        f6 == BitOr(f5, Shl(h.aa, 10))
        f7 == BitOr(f6, Shl(BitAnd(h.opcode, 15), 11))
    IN BitOr(f7, Shl(h.qr, 15))

\* Header.serialize, dns.py:59-70
Serialize(h) ==
    PackH(h.id) \o PackH(FlagsOf(h)) \o PackH(h.qdcount) \o PackH(h.ancount)
        \o PackH(h.nscount) \o PackH(h.arcount)

\* Header.from_buf, dns.py:26-38, for data of exactly 12 bytes
FromBuf(data) ==
    LET flags == UnpackH(SubSeq(data, 3, 4))
    IN [id      |-> UnpackH(SubSeq(data, 1, 2)),
        qr      |-> Shr(BitAnd(flags, Shl(1, 15)), 15),
        opcode  |-> Shr(BitAnd(flags, Shl(15, 11)), 11),
        aa      |-> Shr(BitAnd(flags, Shl(1, 10)), 10),
        tc      |-> Shr(BitAnd(flags, Shl(1, 9)), 9),
        rd      |-> Shr(BitAnd(flags, Shl(1, 8)), 8),
        ra      |-> Shr(BitAnd(flags, Shl(1, 7)), 7),
        z       |-> Shr(BitAnd(flags, Shl(7, 4)), 4),
        rcode   |-> BitAnd(flags, 15),
        qdcount |-> UnpackH(SubSeq(data, 5, 6)),
        ancount |-> UnpackH(SubSeq(data, 7, 8)),
        nscount |-> UnpackH(SubSeq(data, 9, 10)),
        arcount |-> UnpackH(SubSeq(data, 11, 12))]

\* Header.from_values, dns.py:40-57
FromValues(id, qr, opcode, aa, tc, rd, ra, z, rcode, qd, an, ns, ar) ==
    [id |-> id, qr |-> qr, opcode |-> opcode, aa |-> aa, tc |-> tc, rd |-> rd,
     ra |-> ra, z |-> z, rcode |-> rcode, qdcount |-> qd, ancount |-> an,
     nscount |-> ns, arcount |-> ar]

\* The scan is not running: the codec is followed on its own.
ScanIdle ==
    /\ pc = "idle"
    /\ Entry(WordList(1), 1, 1, TRUE)
    /\ zone = AnyResolver
    /\ UriIdle

scanvars == <<inputs, zone, urivars, pc, error, found, probevars, genvars, execvars>>

\* ---------------------------------------------------------- HeaderSpec
\* Headers with every field inside its width: edge values and mixed bits.
Headers ==
    { FromValues(id, qr, op, aa, tc, rd, ra, z, rc, c[1], c[2], c[3], c[4]) :
        id \in {0, 1, 43690, 65535}, qr \in {0, 1}, op \in {0, 5, 15},
        aa \in {0, 1}, tc \in {0, 1}, rd \in {0, 1}, ra \in {0, 1},
        z \in {0, 5, 7}, rc \in {0, 3, 15},
        c \in { <<0, 0, 0, 0>>, <<1, 0, 0, 0>>, <<1, 2, 3, 4>>,
                <<256, 255, 65535, 0>>, <<65535, 65535, 65535, 65535>> } }

HeaderInit ==
    /\ ScanIdle
    /\ dns_pc = "header"
    /\ dns_in \in Headers
    /\ dns_out = <<>>

\* serialize(), dns.py:59-70
HeaderSerialize ==
    /\ dns_pc = "header"
    /\ dns_out' = [buf |-> Serialize(dns_in)]
    /\ dns_pc' = "serialized"
    /\ UNCHANGED <<scanvars, dns_in>>

\* Header.from_buf(buf), dns.py:26-38
HeaderFromBuf ==
    /\ dns_pc = "serialized"
    /\ dns_out' = [buf |-> dns_out.buf, hdr |-> FromBuf(dns_out.buf)]
    /\ dns_pc' = "parsed"
    /\ UNCHANGED <<scanvars, dns_in>>

HeaderNext == HeaderSerialize \/ HeaderFromBuf

HeaderSpec == HeaderInit /\ [][HeaderNext]_vars

\* ------------------------------------------------------------ names
\* A str is kept as what str.split('.') gives: a non-empty sequence of labels,
\* each a sequence of ASCII bytes other than '.'; '' is one empty label.
EmptyString == << <<>> >>

\* Frames the interpreter allows before RecursionError; any finite limit ends
\* an endless run of read_domain_name the same way.
MaxRecursion == 8

\* dns.py:78 and 96-106: the record types tried, one of them unsupported
RecordTypes == {"A", "AAAA", "NS", "MX"}

\* dns.py:96-104: the two type bytes
TypeBytes(queried_record) ==
    IF queried_record = "AAAA" THEN <<0, 28>>
    ELSE IF queried_record = "A" THEN <<0, 1>>
    ELSE <<0, 2>>

\* dns.py:87-94: the question name, or the assertion failing
RECURSIVE EncodeName(_)
EncodeName(subdomains) ==
    IF subdomains = <<>> THEN [exc |-> "none", buf |-> <<0>>]
    ELSE LET sub == Head(subdomains)
         IN IF ~(Len(sub) <= 255) THEN [exc |-> "AssertionError", buf |-> <<>>]
            ELSE LET rest == EncodeName(Tail(subdomains))
                 IN IF rest.exc # "none" THEN rest
                    ELSE [exc |-> "none", buf |-> <<Len(sub)>> \o sub \o rest.buf]

\* dns.py:79-109: the request datagram
Request(domain, queried_record) ==
    LET hdr == Serialize(FromValues(1, 0, 0, 0, 0, 1, 0, 0, 0, 1, 0, 0, 0))
        question == EncodeName(domain)
    IN IF question.exc # "none" THEN question
       ELSE IF queried_record \notin {"AAAA", "A", "NS"}
            THEN [exc |-> "ValueError", buf |-> <<>>]
       ELSE [exc |-> "none",
             buf |-> hdr \o question.buf \o TypeBytes(queried_record) \o <<0, 1>>]

NameFails(e, i) == [exc |-> e, name |-> EmptyString, i |-> i, jumps |-> <<>>]

JoinNameDotted(name, next_name) == <<name>> \o next_name

\* dns.py:149-151
JoinName(name, next_name) ==
    IF next_name # EmptyString THEN <<name>> \o next_name ELSE <<name>>

\* read_domain_name, dns.py:129-151. base is the offset of buf[0] in resp;
\* jumps lists the pointers followed as <<offset of the pointer, target>>,
\* both counted from the start of resp.
RECURSIVE ReadName(_, _, _, _, _, _, _)
ReadName(resp, buf, base, pos, advance_i, i, fuel) ==
    LET read_i == IF pos = -1 THEN i ELSE pos
    IN IF fuel = 0 THEN NameFails("RecursionError", i)
       ELSE IF read_i >= Len(buf) THEN NameFails("IndexError", i)
       ELSE IF BitAnd(buf[read_i + 1], 192) = 192
       THEN LET two == Slice(buf, read_i, read_i + 2)
            IN IF Len(two) < 2 THEN NameFails("struct.error", i)
               ELSE LET name_i == BitAnd(UnpackH(two), 16383)
                        i1 == IF advance_i THEN read_i + 2 ELSE i
                        r == ReadName(resp, resp, 0, name_i, FALSE, i1, fuel - 1)
                    IN [r EXCEPT !.jumps = << <<base + read_i, name_i>> >> \o r.jumps]
       ELSE LET length == buf[read_i + 1]
                r1 == read_i + 1
            IN IF length = 0
               THEN [exc |-> "none", name |-> EmptyString,
                     i |-> IF advance_i THEN r1 ELSE i, jumps |-> <<>>]
               ELSE LET name == Slice(buf, r1, r1 + length)
                        r2 == r1 + length
                        i2 == IF advance_i THEN r2 ELSE i
                    IN IF \E k \in 1..Len(name) : name[k] >= 128
                       THEN NameFails("UnicodeDecodeError", i)
                       ELSE LET nx == ReadName(resp, buf, base, r2, advance_i, i2, fuel - 1)
                            IN IF nx.exc # "none" THEN nx
                               ELSE [nx EXCEPT !.name = JoinName(name, nx.name)]

\* ------------------------------------------------------------ NameSpec
MaxLabels == 2

Run(n, byte) == [k \in 1..n |-> byte]

\* Labels around the limits of the wire format: 63/64 and 255/256 bytes.
Labels ==
    { <<>>, <<97>>, <<98>>, <<97, 98>>, Run(63, 97), Run(64, 97), Run(255, 97),
      Run(256, 97) }

Domains == UNION { [1..n -> Labels] : n \in 1..MaxLabels }

NameInit ==
    /\ ScanIdle
    /\ dns_pc = "name"
    /\ dns_in \in [domain : Domains, record : RecordTypes]
    /\ dns_out = <<>>

\* dns.py:79-109, the datagram is built
NameEncode ==
    /\ dns_pc = "name"
    /\ Request(dns_in.domain, dns_in.record).exc = "none"
    /\ dns_out' = [req |-> Request(dns_in.domain, dns_in.record).buf]
    /\ dns_pc' = "encoded"
    /\ UNCHANGED <<scanvars, dns_in>>

\* dns.py:90 or 106 raises
NameEncodeRaises ==
    /\ dns_pc = "name"
    /\ Request(dns_in.domain, dns_in.record).exc # "none"
    /\ dns_out' = [exc |-> Request(dns_in.domain, dns_in.record).exc]
    /\ dns_pc' = "raised"
    /\ UNCHANGED <<scanvars, dns_in>>

\* The question comes back as sent and read_domain_name() reads it from the
\* payload: dns.py:126-127 and 154.
NameDecode ==
    /\ dns_pc = "encoded"
    /\ dns_out' = [req |-> dns_out.req,
                   read |-> ReadName(dns_out.req,
                                     Slice(dns_out.req, HeaderSize, Len(dns_out.req)),
                                     HeaderSize, -1, TRUE, 0, MaxRecursion)]
    /\ dns_pc' = "decoded"
    /\ UNCHANGED <<scanvars, dns_in>>

NameNext == NameEncode \/ NameEncodeRaises \/ NameDecode

NameSpec == NameInit /\ [][NameNext]_vars

\* ----------------------------------------------------------- QuerySpec
\* dns.py:122-125 with the two tests exchanged
HeaderOutcomeCountFirst(hdr) ==
    IF hdr.ancount = 0 THEN "empty"
    ELSE IF hdr.rcode = 3 THEN "NotFoundError"
    ELSE "parse"

\* dns.py:122-125
HeaderOutcome(hdr) ==
    IF hdr.rcode = 3 THEN "NotFoundError"
    ELSE IF hdr.ancount = 0 THEN "empty"
    ELSE "parse"

\* dns.py:153-154, the loop only: n calls of read_domain_name()
RECURSIVE SkipNames(_, _, _, _, _)
SkipNames(resp, payload, n, i, jumps) ==
    IF n = 0 THEN [exc |-> "none", i |-> i, jumps |-> jumps]
    ELSE LET r == ReadName(resp, payload, HeaderSize, -1, TRUE, i, MaxRecursion)
         IN IF r.exc # "none"
            THEN [exc |-> r.exc, i |-> r.i, jumps |-> jumps \o r.jumps]
            ELSE SkipNames(resp, payload, n - 1, r.i, jumps \o r.jumps)

\* dns.py:153-155: the loop, then the one `i += 4` after it
SkipQuestions(resp, payload, qdcount) ==
    LET r == SkipNames(resp, payload, qdcount, 0, <<>>)
    IN IF r.exc # "none" THEN r ELSE [r EXCEPT !.i = r.i + 4]

ParseFails(e, results_, jumps) == [exc |-> e, results |-> results_, jumps |-> jumps]

\* dns.py:165-177: what one record adds to results. The text forms of the
\* addresses are kept as the bytes they are printed from; the compression of
\* the IPv6 text (dns.py:176) is not followed.
RecordValue(resp, dn, type_, data, data_at, i) ==
    IF type_ = 1
    THEN IF Len(data) < 4 THEN [exc |-> "IndexError", add |-> <<>>, jumps |-> <<>>]
         ELSE [exc |-> "none", add |-> << <<dn, SubSeq(data, 1, 4)>> >>, jumps |-> <<>>]
    ELSE IF type_ = 2
    THEN LET ns == ReadName(resp, data, HeaderSize + data_at, 0, FALSE, i, MaxRecursion)
         IN [exc |-> ns.exc, add |-> << <<dn, ns.name>> >>, jumps |-> ns.jumps]
    ELSE IF type_ = 28
    THEN IF Len(data) < 16 THEN [exc |-> "IndexError", add |-> <<>>, jumps |-> <<>>]
         ELSE [exc |-> "none", add |-> << <<dn, SubSeq(data, 1, 16)>> >>, jumps |-> <<>>]
    ELSE [exc |-> "none", add |-> <<>>, jumps |-> <<>>]

\* dns.py:157-179
RECURSIVE ParseAnswers(_, _, _, _, _, _)
ParseAnswers(resp, payload, n, i, results_, jumps) ==
    IF n = 0 THEN [exc |-> "none", results |-> results_, jumps |-> jumps]
    ELSE
    LET dn == ReadName(resp, payload, HeaderSize, -1, TRUE, i, MaxRecursion)
        j1 == jumps \o dn.jumps
        fixed == Slice(payload, dn.i, dn.i + 10)
    IN IF dn.exc # "none" THEN ParseFails(dn.exc, results_, j1)
       ELSE IF Len(fixed) < 10 THEN ParseFails("struct.error", results_, j1)
       ELSE
       LET type_ == UnpackH(SubSeq(fixed, 1, 2))
           data_len == UnpackH(SubSeq(fixed, 9, 10))
           data_at == dn.i + 10
           data == Slice(payload, data_at, data_at + data_len)
           i2 == data_at + data_len
           v == RecordValue(resp, dn.name, type_, data, data_at, i2)
       IN IF v.exc # "none" THEN ParseFails(v.exc, results_, j1 \o v.jumps)
          ELSE ParseAnswers(resp, payload, n - 1, i2, results_ \o v.add, j1 \o v.jumps)

\* Replies: a header, questions as the request carried them, answer records
\* of a few shapes, some bytes missing at the end.
MaxQuestions == 2
MaxRecords == 2
MaxCut == 2

QueriedName == << <<97>> >>

QuestionBytes == EncodeName(QueriedName).buf \o TypeBytes("A") \o <<0, 1>>

RECURSIVE Repeat(_, _)
Repeat(b, n) == IF n = 0 THEN <<>> ELSE b \o Repeat(b, n - 1)

\* The owner name of a record: a pointer to offset 12, a pointer to the
\* pointer itself, or the name in full.
OwnerBytes(how, offset) ==
    IF how = "ptr" THEN <<192, HeaderSize>>
    ELSE IF how = "self" THEN <<192 + (offset \div 256), offset % 256>>
    ELSE EncodeName(QueriedName).buf

\* type, class, ttl, data length, data
BodyBytes(what) ==
    IF what = "A" THEN <<0, 1, 0, 1, 0, 0, 0, 60, 0, 4, 10, 0, 0, 1>>
    ELSE IF what = "Along" THEN <<0, 1, 0, 1, 0, 0, 0, 60, 0, 6, 10, 0, 0, 1>>
    ELSE IF what = "NS" THEN <<0, 2, 0, 1, 0, 0, 0, 60, 0, 2, 192, HeaderSize>>
    ELSE IF what = "AAAA" THEN <<0, 28, 0, 1, 0, 0, 0, 60, 0, 16>> \o Run(16, 1)
    ELSE <<0, 5, 0, 1, 0, 0, 0, 60, 0, 2, 192, HeaderSize>>

RecordKinds ==
    { <<"ptr", "A">>, <<"inline", "A">>, <<"self", "A">>, <<"ptr", "Along">>,
      <<"ptr", "NS">>, <<"ptr", "AAAA">>, <<"ptr", "CNAME">> }

RECURSIVE RecordsBytes(_, _)
RecordsBytes(kinds, offset) ==
    IF kinds = <<>> THEN <<>>
    ELSE LET rec == OwnerBytes(Head(kinds)[1], offset) \o BodyBytes(Head(kinds)[2])
         IN rec \o RecordsBytes(Tail(kinds), offset + Len(rec))

ReplyBytes(sh) ==
    LET hdr == Serialize(FromValues(1, 1, 0, 0, 0, 1, 1, 0, sh.rcode, sh.qd, sh.an, 0, 0))
        qs == Repeat(QuestionBytes, sh.qd)
        whole == hdr \o qs \o RecordsBytes(sh.recs, HeaderSize + Len(qs))
    IN SubSeq(whole, 1, Len(whole) - sh.cut)

Shapes ==
    { sh \in [rcode : {0, 2, 3}, qd : 0..MaxQuestions, an : 0..(MaxRecords + 1),
              recs : UNION { [1..n -> RecordKinds] : n \in 0..MaxRecords },
              cut : 0..MaxCut] :
        sh.an \in {0, Len(sh.recs), Len(sh.recs) + 1} }

NoReply == [rcode |-> 0, qd |-> 0, an |-> 0, recs |-> <<>>, cut |-> 0]

QueryInit ==
    /\ ScanIdle
    /\ dns_pc = "query"
    /\ \/ \E sh \in Shapes : dns_in = [reply |-> TRUE, shape |-> sh, resp |-> ReplyBytes(sh)]
       \/ dns_in = [reply |-> FALSE, shape |-> NoReply, resp |-> <<>>]
    /\ dns_out = [sent |-> <<>>, exc |-> "none", results |-> <<>>, i |-> 0, jumps |-> <<>>]

\* dns.py:79-113
QuerySend ==
    /\ dns_pc = "query"
    /\ dns_out' = [dns_out EXCEPT !.sent = @ \o <<Request(QueriedName, "A").buf>>]
    /\ dns_pc' = "sent"
    /\ UNCHANGED <<scanvars, dns_in>>

\* dns.py:115-119, select() returns nothing
QueryTimeout ==
    /\ dns_pc = "sent"
    /\ ~dns_in.reply
    /\ dns_out' = [dns_out EXCEPT !.exc = "RuntimeError"]
    /\ dns_pc' = "raised"
    /\ UNCHANGED <<scanvars, dns_in>>

\* dns.py:117 and 121-127
QueryRecv ==
    /\ dns_pc = "sent"
    /\ dns_in.reply
    /\ LET data == Slice(dns_in.resp, 0, HeaderSize)
       IN IF Len(data) # HeaderSize
          THEN dns_out' = [dns_out EXCEPT !.exc = "struct.error"] /\ dns_pc' = "raised"
          ELSE LET what == HeaderOutcome(FromBuf(data))
               IN IF what = "NotFoundError"
                  THEN dns_out' = [dns_out EXCEPT !.exc = "NotFoundError"] /\ dns_pc' = "raised"
                  ELSE IF what = "empty"
                  THEN dns_out' = dns_out /\ dns_pc' = "returned"
                  ELSE dns_out' = dns_out /\ dns_pc' = "questions"
    /\ UNCHANGED <<scanvars, dns_in>>

\* dns.py:153-155
QuerySkip ==
    /\ dns_pc = "questions"
    /\ LET resp == dns_in.resp
           r == SkipQuestions(resp, Slice(resp, HeaderSize, Len(resp)),
                              FromBuf(Slice(resp, 0, HeaderSize)).qdcount)
       IN /\ dns_out' = [dns_out EXCEPT !.exc = r.exc, !.i = r.i, !.jumps = r.jumps]
          /\ dns_pc' = IF r.exc # "none" THEN "raised" ELSE "answers"
    /\ UNCHANGED <<scanvars, dns_in>>

\* dns.py:157-179
QueryParse ==
    /\ dns_pc = "answers"
    /\ LET resp == dns_in.resp
           r == ParseAnswers(resp, Slice(resp, HeaderSize, Len(resp)),
                             FromBuf(Slice(resp, 0, HeaderSize)).ancount,
                             dns_out.i, <<>>, dns_out.jumps)
       IN /\ dns_out' = [dns_out EXCEPT !.exc = r.exc, !.results = r.results,
                                        !.jumps = r.jumps]
          /\ dns_pc' = IF r.exc # "none" THEN "raised" ELSE "returned"
    /\ UNCHANGED <<scanvars, dns_in>>

QueryNext == QuerySend \/ QueryTimeout \/ QueryRecv \/ QuerySkip \/ QueryParse

QuerySpec == QueryInit /\ [][QueryNext]_vars

\* ============================================================== claims
\* dispatched as one sequence of names
RECURSIVE Flatten(_)
Flatten(ss) == IF ss = <<>> THEN <<>> ELSE Head(ss) \o Flatten(Tail(ss))

NoDuplicates(s) == \A a, b \in 1..Len(s) : a # b => s[a] # s[b]

\* depth-tuples of wordlist entries
Tuples(wl, d) == { t \in [1..d -> 1..Len(wl)] : TRUE }

LabelsOf(wl, t) == [k \in 1..Len(t) |-> wl[t[k]]]

\* The futures of the current batch whose job.result() has been evaluated.
Evaluated(k) ==
    /\ k \in 1..Len(scheduled)
    /\ \/ pc = "collect" /\ k < collect_i
       \/ pc \in {"unwind", "aborted"} /\ k <= collect_i

\* C1: in every reachable state the number of lookups started and not yet
\* completed is at most the worker count num_threads.
C1_InFlightAtMostN == InFlight <= num_threads

C1_Witness ==
    /\ num_threads >= 2
    /\ batch_no >= 2
    /\ Cardinality(Running(futures)) = num_threads

\* C2: no lookup of a later batch is in the pool while a lookup of an earlier
\* batch has not completed.
C2_BatchesSequential ==
    \A i, j \in 1..Len(futures) :
        futures[i].batch < futures[j].batch => futures[i].status = "done"

C2_Witness ==
    /\ batch_no >= 2
    /\ Len(dispatched[1]) >= 2
    /\ \E k \in 1..Len(futures) : futures[k].batch = batch_no /\ futures[k].status = "running"

\* C3: when the scan returns, the batches, in order, are the generated
\* candidates in generator order, each submitted once; every batch but the
\* last has exactly num_threads candidates and the last has 1..num_threads.
C3_BatchesPartitionCandidates ==
    pc = "done" =>
        /\ Flatten(dispatched) = [k \in 1..Len(emitted) |-> FullPath(emitted[k])]
        /\ \A b \in 1..Len(dispatched) :
              IF b < Len(dispatched)
              THEN Len(dispatched[b]) = num_threads
              ELSE Len(dispatched[b]) \in 1..num_threads

C3_Witness ==
    /\ pc = "done"
    /\ Len(dispatched) >= 2
    /\ Len(dispatched[Len(dispatched)]) < num_threads

\* C4: when the candidate loop ends, it has emitted every depth-tuple of
\* wordlist entries exactly once: len(wordlist)^depth candidates, none
\* repeated, none missing.
C4_EveryTupleOnce ==
    pc = "done" =>
        /\ Len(emitted) = Power(Len(wordlist), depth)
        /\ NoDuplicates(emitted)
        /\ \A t \in Tuples(wordlist, depth) :
              \E k \in 1..Len(emitted) : emitted[k] = LabelsOf(wordlist, t)

\* C5 as stated: for wordlist ["a","b"] and depth 2 the candidates are, in
\* order, a.a, b.a, a.b, b.b.
C5_OrderAsStated ==
    (wordlist = <<"a", "b">> /\ depth = 2 /\ pc = "done") =>
        emitted = << <<"a", "a">>, <<"b", "a">>, <<"a", "b">>, <<"b", "b">> >>

\* C5 as amended: for wordlist ["a","b"] and depth 2 the candidates are, in
\* order, a.a, a.b, b.a, b.b (the rightmost label changes fastest).
C5_OrderRightmostFastest ==
    (wordlist = <<"a", "b">> /\ depth = 2 /\ pc = "done") =>
        emitted = << <<"a", "a">>, <<"a", "b">>, <<"b", "a">>, <<"b", "b">> >>

C5_Witness ==
    wordlist = <<"a", "b">> /\ depth = 2 /\ pc = "done" /\ Len(emitted) = 4

\* C6: the candidate loop never fails with an index out of range on the
\* odometer array, whatever the depth and the wordlist length.
C6_NoIndexError == error # "IndexError"

\* C7: a candidate's lookup that times out or whose response does not parse
\* never aborts the scan.
C7_LookupFailureNeverAborts ==
    ~(batch_no > 0 /\ error \in {"RuntimeError", "DecodeError"})

\* C8: a candidate whose lookup returned a non-empty list is left out of the
\* hits if and only if the set of its addresses equals wildcard_addrs.
C8_FilterBySetEquality ==
    \A k \in 1..Len(scheduled) :
        (/\ Evaluated(k)
         /\ futures[scheduled[k]].result.kind = "records"
         /\ futures[scheduled[k]].result.recs # <<>>)
        => ((\E r \in 1..Len(results) : results[r] = futures[scheduled[k]].result.recs)
              <=> AddrSet(futures[scheduled[k]].result.recs) # wildcard_addrs)

\* C9: wildcard_addrs is assigned once, by the probe, before any candidate is
\* dispatched; it is empty when the probe ended in not-found; once assigned it
\* never changes.
C9_WildcardAssignedOnce ==
    /\ [](batch_no > 0 => wildcard_writes = 1)
    /\ [](probe_reply = "NotFoundError" => wildcard_addrs = {})
    /\ [][wildcard_writes = 1 =>
            (wildcard_writes' = 1 /\ wildcard_addrs' = wildcard_addrs)]_vars

C9_Witness ==
    /\ probe_reply = "ok"
    /\ wildcard_addrs # {}
    /\ batch_no >= 2
    /\ found # <<>>
    /\ \E k \in 1..Len(futures) : futures[k].status = "done"

\* The addresses found under owner name dn, in the order of discovery.
AddrsOf(dn, recs) ==
    LET own == SelectSeq(recs, LAMBDA r : r[1] = dn)
    IN [k \in 1..Len(own) |-> own[k][2]]

\* C10: a candidate whose lookup returns two or more records under one owner
\* name, and whose address set is not the wildcard set, does not make the scan
\* fail, and the hit mapping holds that owner name once with all of its
\* addresses in discovery order.
C10_SameOwnerRecordsMerged ==
    /\ \A k \in 1..Len(scheduled) :
          (/\ Evaluated(k)
           /\ futures[scheduled[k]].result.kind = "records"
           /\ GroupingRaises(futures[scheduled[k]].result.recs)
           /\ AddrSet(futures[scheduled[k]].result.recs) # wildcard_addrs)
          => error # "AttributeError"
    /\ (pc = "done" /\ quiet) =>
          \A dn \in DOMAIN Hits : Hits[dn] = AddrsOf(dn, Flatten(found))

\* C11: with a resolver that answers www.example.test with 10.0.0.1 and
\* NXDOMAIN for every other name, the scan of wordlist ["www","mail"], depth 1,
\* does not fail and returns exactly the hit www.example.test -> [10.0.0.1],
\* with no entry for mail.example.test, whatever num_threads is.
C11_EndToEnd ==
    (wordlist = <<"www", "mail">> /\ depth = 1 /\ zone = [fixed |-> TRUE, names |-> {"www"}]) =>
        /\ pc # "aborted"
        /\ pc = "done" =>
              /\ found = << << << <<"www", Target>>, "10.0.0.1" >> >> >>
              /\ quiet =>
                    /\ DOMAIN Hits = { <<"www", Target>> }
                    /\ Hits[<<"www", Target>>] = <<"10.0.0.1">>

C11_Witness ==
    /\ wordlist = <<"www", "mail">> /\ depth = 1 /\ zone = [fixed |-> TRUE, names |-> {"www"}]
    /\ num_threads >= 2
    /\ quiet
    /\ pc = "done"
    /\ <<"www", Target>> \in DOMAIN Hits

\* C15: for every header whose fields are inside their widths,
\* Header.from_buf(Header.serialize(h)) has the same value as h in every field.
C15_HeaderRoundTrip ==
    dns_pc = "parsed" => (Len(dns_out.buf) = HeaderSize /\ dns_out.hdr = dns_in)

C15_Witness ==
    /\ dns_pc = "parsed"
    /\ dns_in.ra = 1 /\ dns_in.rd = 0 /\ dns_in.opcode = 5 /\ dns_in.z = 5
    /\ dns_in.id = 43690 /\ dns_in.arcount = 4

AllLabels(P(_)) == \A k \in 1..Len(dns_in.domain) : P(dns_in.domain[k])

\* C14: a name with a label longer than 63 bytes is refused with an encoding
\* error: no datagram is built for it, so no length byte of 64 or more is
\* ever written.
C14_LongLabelRefused ==
    (dns_pc \in {"encoded", "decoded"}) => AllLabels(LAMBDA l : Len(l) <= 63)

\* C16 as stated: every name whose labels are each 0 to 63 bytes long is read
\* back by read_domain_name, from the question the encoder wrote, as the same
\* sequence of labels.
C16_RoundTripAsStated ==
    (dns_pc = "decoded" /\ AllLabels(LAMBDA l : Len(l) <= 63)) =>
        (dns_out.read.exc = "none" /\ dns_out.read.name = dns_in.domain)

\* C16 amended: every name whose labels are each 1 to 63 bytes long is read
\* back as the same sequence of labels, the read position ending on the byte
\* after the terminating zero.
C16_RoundTripNonEmptyLabels ==
    (dns_pc = "decoded" /\ AllLabels(LAMBDA l : Len(l) >= 1 /\ Len(l) <= 63)) =>
        /\ dns_out.read.exc = "none"
        /\ dns_out.read.name = dns_in.domain
        /\ dns_out.read.i = Len(dns_out.req) - HeaderSize - 4

C16_Witness ==
    /\ dns_pc = "decoded"
    /\ Len(dns_in.domain) >= 2
    /\ dns_in.domain[1] = Run(63, 97)
    /\ dns_in.domain[2] = <<97, 98>>
    /\ dns_out.read.name = dns_in.domain

QueryEnded == dns_pc \in {"returned", "raised"}

\* The reply is as long as its header says, with one question, and no record
\* points at itself.
PlainShape(sh) ==
    /\ sh.qd = 1
    /\ \A k \in 1..Len(sh.recs) : sh.recs[k][1] # "self"

\* C12: when a name of the reply is read through a compression pointer that
\* does not point to a lower offset, query ends in MalformedNameError.
C12_BadPointerIsMalformedName ==
    ( /\ QueryEnded
      /\ dns_in.reply /\ dns_in.shape.qd = 1 /\ dns_in.shape.cut = 0
      /\ dns_in.shape.an = Len(dns_in.shape.recs)
      /\ \E j \in 1..Len(dns_out.jumps) : dns_out.jumps[j][2] >= dns_out.jumps[j][1] )
    => dns_out.exc = "MalformedNameError"

\* The reply has fewer answer records than its header declares, or its last
\* record has fewer data bytes than the record declares.
Truncated(sh) ==
    \/ sh.an > Len(sh.recs)
    \/ /\ sh.recs # <<>>
       /\ sh.an = Len(sh.recs)
       /\ sh.cut > 0 \/ sh.recs[Len(sh.recs)][2] = "Along"

\* C13: decoding a reply that declares more answer records, or more data
\* bytes in a record, than it carries ends in TruncatedMessageError; no
\* result list is returned.
C13_TruncatedIsRefused ==
    ( /\ QueryEnded
      /\ dns_in.reply /\ dns_in.shape.rcode # 3 /\ PlainShape(dns_in.shape)
      /\ Truncated(dns_in.shape) )
    => (dns_pc = "raised" /\ dns_out.exc = "TruncatedMessageError")

\* C17: one call sends exactly one datagram; it ends in the timeout error
\* when no reply arrives, in NotFoundError when the reply's response code is
\* 3 whatever its answer count, and returns the empty list when a reply with
\* another response code declares no answers.
C17_QueryOutcomes ==
    /\ Len(dns_out.sent) = (IF dns_pc = "query" THEN 0 ELSE 1)
    /\ (dns_pc # "query") => dns_out.sent[1] = Request(QueriedName, "A").buf
    /\ (dns_pc \notin {"query", "sent"}) =>
          /\ ~dns_in.reply => (dns_pc = "raised" /\ dns_out.exc = "RuntimeError")
          /\ (dns_in.reply /\ Len(dns_in.resp) >= HeaderSize /\ dns_in.shape.rcode = 3)
                => (dns_pc = "raised" /\ dns_out.exc = "NotFoundError")
          /\ (dns_in.reply /\ Len(dns_in.resp) >= HeaderSize /\ dns_in.shape.rcode # 3
                /\ dns_in.shape.an = 0)
                => (dns_pc = "returned" /\ dns_out.results = <<>>)

C17_Witness ==
    /\ dns_pc = "raised"
    /\ dns_out.exc = "NotFoundError"
    /\ dns_in.shape.an = 2
    /\ Len(dns_in.shape.recs) = 2
    /\ Len(dns_out.sent) = 1

\* C18: once the questions of a reply with well-formed questions are skipped,
\* the read position is the first byte after the last question: qdcount
\* names and qdcount 4-byte type/class fields have been passed.
C18_PositionAfterQuestions ==
    (dns_pc = "answers" /\ dns_in.shape.cut = 0) =>
        dns_out.i = dns_in.shape.qd * Len(QuestionBytes)

\* The hits of the candidates cs, in the order of cs, under the fixed zone.
RECURSIVE HitsInOrder(_)
HitsInOrder(cs) ==
    IF cs = <<>> THEN <<>>
    ELSE LET o == ZoneAnswer(zone.names, FullPath(Head(cs)))
         IN (IF o.kind = "ok" THEN <<o.recs>> ELSE <<>>) \o HitsInOrder(Tail(cs))

\* C19: with the resolver's answers fixed, the list scan_subdomains returns is
\* the hits of the generated candidates in generator order, whatever the
\* order in which the workers started and finished.
C19_HitsInGeneratorOrder ==
    pc = "done" => found = HitsInOrder(emitted)

C19_Witness ==
    /\ pc = "done"
    /\ num_threads >= 2
    /\ Len(dispatched) >= 2
    /\ Len(found) >= 3
    /\ found[1] # found[2]

Min(a, b) == IF a <= b THEN a ELSE b

\* The words of a candidate of scan_uris, without the part for the trailing '/'
UriWords(req_path) == SelectSeq(req_path, LAMBDA w : w # "")

Sizes(batches) == [b \in 1..Len(batches) |-> Len(batches[b])]

\* C20: run side by side on the same wordlist, depth and num_threads, the
\* candidate loops of scan_uris and scan_subdomains form the same words in
\* the same order from the same index tuples, hand over batches at the same
\* candidates, and end at the same pass in the same way.
C20_SameProducer ==
    LET m == Min(Len(emitted), Len(uri_emitted))
        nb == Min(Len(dispatched), Len(uri_batches))
    IN /\ \A k \in 1..m : UriWords(uri_emitted[k]) = emitted[k]
       /\ SubSeq(Sizes(dispatched), 1, nb) = SubSeq(Sizes(uri_batches), 1, nb)
       /\ (pc = "loop" /\ uri_pc = "loop" /\ Len(emitted) = Len(uri_emitted)) =>
             (indices = uri_indices /\ Len(jobs) = Len(uri_jobs))
       /\ (pc # "loop" /\ uri_pc # "loop") =>
             /\ pc = uri_pc
             /\ Len(emitted) = Len(uri_emitted)
             /\ indices = uri_indices
             /\ Sizes(dispatched) = Sizes(uri_batches)

C20_Witness ==
    /\ pc = "done" /\ uri_pc = "done"
    /\ depth = 3 /\ Len(wordlist) = 3 /\ num_threads = 2
    /\ Len(uri_emitted) = 29
    /\ Len(uri_batches) = 15
    /\ Len(uri_batches[15]) = 1
    /\ trailing_slash

====
